---- MODULE Spec2Model ----
(***************************************************************************)
(* Model of cupi_shift (src/src/lib.rs): a Shifter owns an ordered chain   *)
(* of ShiftRegister values and three output lines (data, latch, clock).    *)
(* Every public method of Shifter is one action.  The line events a call   *)
(* emits are recorded, in order, in `events`; `call` records the call that *)
(* produced the current state.                                             *)
(***************************************************************************)
EXTENDS Integers, Sequences, FiniteSets, TLC

\* Width in bits of the word backing ShiftRegister.data (usize), scaled down.
WordBits == 2

\* Largest number of registers added to one chain.
MaxRegs == 2

VARIABLES
    shift_registers,  \* Shifter.shift_registers: the chain, in insertion order
    invert,           \* Shifter.invert
    events,           \* line events driven by the most recent call, in order
    call,             \* the most recent call: method, apply flag, result
    added,            \* number of add() calls made so far
    panicked,         \* TRUE once a call has panicked (the thread unwinds)
    latch,            \* level last driven on the latch line; followed by
                      \* SpecLines only, Unknown under the other specifications
    failed            \* the line drive that returned an error, or NoDrive

vars == <<shift_registers, invert, events, call, added, panicked, latch, failed>>


----------------------------------------------------------------------------
\* Input domains

\* usize values
Words == 0..(2^WordBits - 1)

\* Values of `pins` given to add(): a register as wide as the backing word
\* and one a bit narrower (the design assumes no chip is wider than the word).
Widths == {w \in 0..WordBits : w + 1 >= WordBits}

\* Values of the u8 `pin` argument; WordBits stands for every pin number that
\* is not a valid shift amount for the word.
PinArgs == 0..WordBits

\* Values of `sr_index`; MaxRegs is never returned by add().
IndexArgs == 0..MaxRegs

----------------------------------------------------------------------------
\* usize arithmetic

\* sr.data >> n & 1
Bit(data, n) == (data \div (2^n)) % 2

RECURSIVE BitOr(_, _)
\* a | b
BitOr(a, b) ==
    IF a = 0 THEN b
    ELSE IF b = 0 THEN a
    ELSE (IF a % 2 = 1 \/ b % 2 = 1 THEN 1 ELSE 0) + 2 * BitOr(a \div 2, b \div 2)

RECURSIVE BitAnd(_, _)
\* a & b
BitAnd(a, b) ==
    IF a = 0 \/ b = 0 THEN 0
    ELSE (IF a % 2 = 1 /\ b % 2 = 1 THEN 1 ELSE 0) + 2 * BitAnd(a \div 2, b \div 2)

\* !a
BitNot(a) == (2^WordBits - 1) - a

\* 1 << pin without overflow checks: the shift amount is taken modulo the
\* word width.
Shl1(pin) == 2^(pin % WordBits)

\* 1 << pin overflows when pin is not smaller than the word width.
ShiftOverflows(pin) == pin >= WordBits

----------------------------------------------------------------------------
\* ShiftRegister

\* ShiftRegister { data: 0, pins: pins }
NewShiftRegister(pins) == [data |-> 0, pins |-> pins]

\* ShiftRegister::set keeping only the bits the chip has outputs for.
SrSetMasked(sr, data) == [data |-> data % 2^(sr.pins), pins |-> sr.pins]

\* ShiftRegister::set
SrSet(sr, data) == [sr EXCEPT !.data = data]

----------------------------------------------------------------------------
\* Line events

\* A line event: the line, the level driven, and the loop position of apply()
\* that drove it (i: position of sr in the chain, counted from 0; n: the bit).
\* The latch is driven outside the loops.
NoPos == -1

Drive(line, level, i, n) == [line |-> line, level |-> level, i |-> i, n |-> n]

\* self.latch.low() / self.latch.high()
LatchLow  == Drive("latch", 0, NoPos, NoPos)
LatchHigh == Drive("latch", 1, NoPos, NoPos)

\* self.clock.low() / self.clock.high()
ClockLow(i, n)  == Drive("clock", 0, i, n)
ClockHigh(i, n) == Drive("clock", 1, i, n)

\* The `if self.invert { match ... } else { match ... }` of apply(): the level
\* driven on the data line for one bit.
DataLevel(bit, inv) ==
    IF inv
    THEN (IF bit = 1 THEN 0 ELSE 1)
    ELSE (IF bit = 0 THEN 0 ELSE 1)

\* PulseEvents shifting the most significant pin out first.
PulseEventsMsbFirst(sr, inv, i, n) ==
    <<ClockLow(i, n),
      Drive("data", DataLevel(Bit(sr.data, sr.pins - 1 - n), inv), i, n),
      ClockHigh(i, n)>>

\* One pass of the body of `for n in 0..sr.pins`.
PulseEvents(sr, inv, i, n) ==
    <<ClockLow(i, n),
      Drive("data", DataLevel(Bit(sr.data, n), inv), i, n),
      ClockHigh(i, n)>>

RECURSIVE BitEventsDescending(_, _, _, _)
\* BitEvents walking the pins from the highest down to pin 0.
BitEventsDescending(sr, inv, i, k) ==
    IF k = 0 THEN <<>>
    ELSE PulseEvents(sr, inv, i, k - 1) \o BitEventsDescending(sr, inv, i, k - 1)

RECURSIVE BitEvents(_, _, _, _)
\* `for n in 0..sr.pins`, for the bits n < k of sr.
BitEvents(sr, inv, i, k) ==
    IF k = 0 THEN <<>>
    ELSE BitEvents(sr, inv, i, k - 1) \o PulseEvents(sr, inv, i, k - 1)

RECURSIVE ChainEventsReversed(_, _, _)
\* ChainEvents walking the chain from the most recently added register back
\* to the first.
ChainEventsReversed(regs, inv, k) ==
    IF k = 0 THEN <<>>
    ELSE BitEvents(regs[k], inv, k - 1, regs[k].pins)
            \o ChainEventsReversed(regs, inv, k - 1)

RECURSIVE ChainEvents(_, _, _)
\* `for sr in self.shift_registers.iter()`, for the first k registers.
ChainEvents(regs, inv, k) ==
    IF k = 0 THEN <<>>
    ELSE ChainEvents(regs, inv, k - 1)
            \o BitEvents(regs[k], inv, k - 1, regs[k].pins)

\* ApplyEvents pulsing the latch only after the bits have been clocked out.
ApplyEventsUnbracketed(regs, inv) ==
    ChainEvents(regs, inv, Len(regs)) \o <<LatchLow, LatchHigh>>

RECURSIVE LatchedChainEvents(_, _, _)
LatchedChainEvents(regs, inv, k) ==
    IF k = 0 THEN <<>>
    ELSE LatchedChainEvents(regs, inv, k - 1)
            \o <<LatchLow>> \o BitEvents(regs[k], inv, k - 1, regs[k].pins)
            \o <<LatchHigh>>

\* ApplyEvents running one latch cycle per register.
ApplyEventsLatchPerRegister(regs, inv) ==
    IF Len(regs) = 0 THEN <<LatchLow, LatchHigh>>
    ELSE LatchedChainEvents(regs, inv, Len(regs))

\* apply() returning at once when there is no register to shift out.
ApplyEventsSkipEmpty(regs, inv) ==
    IF Len(regs) = 0
    THEN <<>>
    ELSE <<LatchLow>> \o ChainEvents(regs, inv, Len(regs)) \o <<LatchHigh>>

\* apply() with the two latch levels exchanged.
ApplyEventsLatchSwapped(regs, inv) ==
    <<LatchHigh>> \o ChainEvents(regs, inv, Len(regs)) \o <<LatchLow>>

\* Shifter::apply, with every line drive succeeding.
ApplyEvents(regs, inv) ==
    <<LatchLow>> \o ChainEvents(regs, inv, Len(regs)) \o <<LatchHigh>>

----------------------------------------------------------------------------
\* The new_state values of the setters

\* PinHighState storing the mask alone.
PinHighStateOverwrite(sr, pin) == Shl1(pin)

\* sr.data | 1 << pin
PinHighState(sr, pin) == BitOr(sr.data, Shl1(pin))

\* sr.data & !(1 << pin)
PinLowState(sr, pin) == BitAnd(sr.data, BitNot(Shl1(pin)))

\* MaybeApply ignoring the flag.
MaybeApplyAlways(regs, inv, apply) == ApplyEvents(regs, inv)

\* The events of `if apply { self.apply(); }`.
MaybeApply(regs, inv, apply) == IF apply THEN ApplyEvents(regs, inv) ELSE <<>>

\* add() is the only method that returns a value.
NoRet == -1

\* The most recent call: the method, its `apply` argument (TRUE for apply()
\* itself) and the value it returned.
Call(op, apply, ret) == [op |-> op, apply |-> apply, ret |-> ret]

----------------------------------------------------------------------------
\* The level of a line nothing has driven yet.
Unknown == -1


\* No line drive has returned an error.
NoDrive == Drive("none", 0, NoPos, NoPos)

\* Shifter::new
Init ==
    /\ shift_registers = <<>>
    /\ invert = FALSE
    /\ events = <<>>
    /\ call = Call("new", FALSE, NoRet)
    /\ added = 0
    /\ panicked = FALSE
    /\ latch = Unknown
    /\ failed = NoDrive

\* Add putting the new register at the front of the chain.
AddPushFront(pins) ==
    /\ ~panicked
    /\ Len(shift_registers) < MaxRegs
    /\ shift_registers' = <<NewShiftRegister(pins)>> \o shift_registers
    /\ call' = Call("add", FALSE, Len(shift_registers') - 1)
    /\ events' = <<>>
    /\ added' = added + 1
    /\ UNCHANGED <<invert, panicked>>

\* Add returning the length of the chain.
AddReturnsLen(pins) ==
    /\ ~panicked
    /\ Len(shift_registers) < MaxRegs
    /\ shift_registers' = Append(shift_registers, NewShiftRegister(pins))
    /\ call' = Call("add", FALSE, Len(shift_registers'))
    /\ events' = <<>>
    /\ added' = added + 1
    /\ UNCHANGED <<invert, panicked>>

\* Shifter::add
Add(pins) ==
    /\ ~panicked
    /\ Len(shift_registers) < MaxRegs
    /\ shift_registers' = Append(shift_registers, NewShiftRegister(pins))
    /\ call' = Call("add", FALSE, Len(shift_registers') - 1)
    /\ events' = <<>>
    /\ added' = added + 1
    /\ UNCHANGED <<invert, panicked>>

\* The loops of the setters: `for (i, sr) in ...enumerate()` with
\* `if i == sr_index { ...; break; }`.  Index i is shift_registers[i + 1]; an
\* index past the end of the chain matches no register.

\* The loop of set() with an index past the end taken as the last register.
SetLoopClamped(regs, sr_index, data) ==
    [k \in 1..Len(regs) |->
        IF k - 1 = sr_index \/ (k = Len(regs) /\ sr_index >= Len(regs))
        THEN SrSet(regs[k], data) ELSE regs[k]]

\* The loop of Shifter::set: the chain it leaves
SetLoop(regs, sr_index, data) ==
    [k \in 1..Len(regs) |->
        IF k - 1 = sr_index THEN SrSet(regs[k], data) ELSE regs[k]]

\* The loop of Shifter::set_pin_high: the chain it leaves
SetPinHighLoop(regs, sr_index, pin) ==
    [k \in 1..Len(regs) |->
        IF k - 1 = sr_index THEN SrSet(regs[k], PinHighState(regs[k], pin))
        ELSE regs[k]]

\* The loop of Shifter::set_pin_low: the chain it leaves
SetPinLowLoop(regs, sr_index, pin) ==
    [k \in 1..Len(regs) |->
        IF k - 1 = sr_index THEN SrSet(regs[k], PinLowState(regs[k], pin))
        ELSE regs[k]]

\* set() returning before the serialization when no register matched.
SetReturnsEarly(sr_index, data, apply) ==
    /\ ~panicked
    /\ shift_registers' = SetLoop(shift_registers, sr_index, data)
    /\ call' = Call("set", apply, NoRet)
    /\ events' = IF sr_index < Len(shift_registers)
                 THEN MaybeApply(shift_registers', invert, apply)
                 ELSE <<>>
    /\ UNCHANGED <<invert, added, panicked>>

\* set() serializing the chain before it stores the new data.
SetAppliesFirst(sr_index, data, apply) ==
    /\ ~panicked
    /\ events' = MaybeApply(shift_registers, invert, apply)
    /\ shift_registers' = SetLoop(shift_registers, sr_index, data)
    /\ call' = Call("set", apply, NoRet)
    /\ UNCHANGED <<invert, added, panicked>>

\* Shifter::set
Set(sr_index, data, apply) ==
    /\ ~panicked
    /\ shift_registers' = SetLoop(shift_registers, sr_index, data)
    /\ call' = Call("set", apply, NoRet)
    /\ events' = MaybeApply(shift_registers', invert, apply)
    /\ UNCHANGED <<invert, added, panicked>>

\* Shifter::set_pin_high, when `1 << pin` is evaluated without panicking
SetPinHigh(sr_index, pin, apply) ==
    /\ ~panicked
    /\ shift_registers' = SetPinHighLoop(shift_registers, sr_index, pin)
    /\ call' = Call("set_pin_high", apply, NoRet)
    /\ events' = MaybeApply(shift_registers', invert, apply)
    /\ UNCHANGED <<invert, added, panicked>>

\* Shifter::set_pin_low, when `1 << pin` is evaluated without panicking
SetPinLow(sr_index, pin, apply) ==
    /\ ~panicked
    /\ shift_registers' = SetPinLowLoop(shift_registers, sr_index, pin)
    /\ call' = Call("set_pin_low", apply, NoRet)
    /\ events' = MaybeApply(shift_registers', invert, apply)
    /\ UNCHANGED <<invert, added, panicked>>

\* Shifter::set_pin_high / set_pin_low in a build with overflow checks:
\* `1 << pin` panics when the loop reaches the register and pin is not a
\* valid shift amount.  Nothing has been stored and no line driven by then.
ShiftPanic(op, sr_index, pin, apply) ==
    /\ ~panicked
    /\ sr_index < Len(shift_registers)
    /\ ShiftOverflows(pin)
    /\ panicked' = TRUE
    /\ events' = <<>>
    /\ call' = Call(op, apply, NoRet)
    /\ UNCHANGED <<shift_registers, invert, added>>

\* invert() that only ever switches inversion on.
InvertSetsTrue ==
    /\ ~panicked
    /\ invert' = TRUE
    /\ events' = <<>>
    /\ call' = Call("invert", FALSE, NoRet)
    /\ UNCHANGED <<shift_registers, added, panicked>>

\* Shifter::invert
Invert ==
    /\ ~panicked
    /\ invert' = (IF invert THEN FALSE ELSE TRUE)
    /\ events' = <<>>
    /\ call' = Call("invert", FALSE, NoRet)
    /\ UNCHANGED <<shift_registers, added, panicked>>

\* Apply clearing each register once it has been shifted out.
ApplyConsuming ==
    /\ ~panicked
    /\ events' = ApplyEvents(shift_registers, invert)
    /\ shift_registers' =
          [k \in 1..Len(shift_registers) |-> SrSet(shift_registers[k], 0)]
    /\ call' = Call("apply", TRUE, NoRet)
    /\ UNCHANGED <<invert, added, panicked>>

\* Shifter::apply
Apply ==
    /\ ~panicked
    /\ events' = ApplyEvents(shift_registers, invert)
    /\ call' = Call("apply", TRUE, NoRet)
    /\ UNCHANGED <<shift_registers, invert, added, panicked>>

\* What a call does to the two observation variables when every line drive
\* succeeds and the latch line is not followed.
Unobserved == UNCHANGED <<latch, failed>>

Next ==
    \/ \E pins \in Widths : Add(pins) /\ Unobserved
    \/ \E sr_index \in IndexArgs, data \in Words, apply \in BOOLEAN :
          Set(sr_index, data, apply) /\ Unobserved
    \/ \E sr_index \in IndexArgs, pin \in PinArgs, apply \in BOOLEAN :
          SetPinHigh(sr_index, pin, apply) /\ Unobserved
    \/ \E sr_index \in IndexArgs, pin \in PinArgs, apply \in BOOLEAN :
          SetPinLow(sr_index, pin, apply) /\ Unobserved
    \/ \E op \in {"set_pin_high", "set_pin_low"}, sr_index \in IndexArgs,
          pin \in PinArgs, apply \in BOOLEAN :
          ShiftPanic(op, sr_index, pin, apply) /\ Unobserved
    \/ Invert /\ Unobserved
    \/ Apply /\ Unobserved

Spec == Init /\ [][Next]_vars

----------------------------------------------------------------------------
\* The latch line followed across calls.
\*
\* A line keeps the level last driven on it, so the level of the latch line
\* between two calls is the level of the last latch drive of any call so
\* far.  Following it multiplies the states, so it has a specification of
\* its own, with the same calls as Spec.

RECURSIVE LatchAfter(_, _, _)
\* The level of the latch line after the first k of evs, from level l
LatchAfter(l, evs, k) ==
    IF k = 0 THEN l
    ELSE IF evs[k].line = "latch" THEN evs[k].level
    ELSE LatchAfter(l, evs, k - 1)

FollowLatch ==
    /\ latch' = LatchAfter(latch, events', Len(events'))
    /\ UNCHANGED failed

NextLines ==
    \/ \E pins \in Widths : Add(pins) /\ FollowLatch
    \/ \E sr_index \in IndexArgs, data \in Words, apply \in BOOLEAN :
          Set(sr_index, data, apply) /\ FollowLatch
    \/ \E sr_index \in IndexArgs, pin \in PinArgs, apply \in BOOLEAN :
          SetPinHigh(sr_index, pin, apply) /\ FollowLatch
    \/ \E sr_index \in IndexArgs, pin \in PinArgs, apply \in BOOLEAN :
          SetPinLow(sr_index, pin, apply) /\ FollowLatch
    \/ \E op \in {"set_pin_high", "set_pin_low"}, sr_index \in IndexArgs,
          pin \in PinArgs, apply \in BOOLEAN :
          ShiftPanic(op, sr_index, pin, apply) /\ FollowLatch
    \/ Invert /\ FollowLatch
    \/ Apply /\ FollowLatch

SpecLines == Init /\ [][NextLines]_vars

----------------------------------------------------------------------------
\* Calls whose index add() never returned.
\*
\* The record of a call keeps no argument, so the calls with an index past
\* the end of the chain are followed in a specification of their own.  It
\* starts in any state the program is in when invert() has returned: every
\* chain of up to MaxRegs registers holding any data is built by add() and
\* set(), and invert() reaches either polarity.

Registers == [data : Words, pins : Widths]

Chains == UNION {[1..n -> Registers] : n \in 0..MaxRegs}

\* A Shifter on which invert() has just returned
InitAnyChain ==
    /\ shift_registers \in Chains
    /\ invert \in BOOLEAN
    /\ events = <<>>
    /\ call = Call("invert", FALSE, NoRet)
    /\ added = Len(shift_registers)
    /\ panicked = FALSE
    /\ latch = Unknown
    /\ failed = NoDrive

\* sr_index matches no `i` of the enumerate() loops
OutOfRange(sr_index) == sr_index >= Len(shift_registers)

NextOutOfRange ==
    \/ \E sr_index \in IndexArgs, data \in Words, apply \in BOOLEAN :
          OutOfRange(sr_index) /\ Set(sr_index, data, apply) /\ Unobserved
    \/ \E sr_index \in IndexArgs, pin \in PinArgs, apply \in BOOLEAN :
          OutOfRange(sr_index) /\ SetPinHigh(sr_index, pin, apply) /\ Unobserved
    \/ \E sr_index \in IndexArgs, pin \in PinArgs, apply \in BOOLEAN :
          OutOfRange(sr_index) /\ SetPinLow(sr_index, pin, apply) /\ Unobserved

SpecOutOfRange == InitAnyChain /\ [][NextOutOfRange]_vars

----------------------------------------------------------------------------
\* apply() when a line drive returns an error.
\*
\* Every `low()` and `high()` of apply is followed by `.unwrap()`: the first
\* drive that returns Err panics, and the unwinding leaves apply at that
\* point.  The drives before it have taken effect on the lines.

\* The most line drives one apply() makes
MaxDrives == 3 * WordBits * MaxRegs + 2

\* apply() that drives the latch line high on its way out after an error.
ApplyFailsRelatching(k) ==
    /\ ~panicked
    /\ k \in 1..Len(ApplyEvents(shift_registers, invert))
    /\ events' = SubSeq(ApplyEvents(shift_registers, invert), 1, k - 1)
                     \o <<LatchHigh>>
    /\ failed' = ApplyEvents(shift_registers, invert)[k]
    /\ panicked' = TRUE
    /\ call' = Call("apply", TRUE, NoRet)
    /\ UNCHANGED <<shift_registers, invert, added>>

\* Shifter::apply in which the k-th line drive returns an error
ApplyFails(k) ==
    /\ ~panicked
    /\ k \in 1..Len(ApplyEvents(shift_registers, invert))
    /\ events' = SubSeq(ApplyEvents(shift_registers, invert), 1, k - 1)
    /\ failed' = ApplyEvents(shift_registers, invert)[k]
    /\ panicked' = TRUE
    /\ call' = Call("apply", TRUE, NoRet)
    /\ UNCHANGED <<shift_registers, invert, added>>

NextFail ==
    \/ Apply /\ Unobserved
    \/ \E k \in 1..MaxDrives : ApplyFails(k) /\ UNCHANGED latch

SpecFail == InitAnyChain /\ [][NextFail]_vars

----------------------------------------------------------------------------
\* Observations used by the properties below

\* Registers by the index add() returned.
Indices == 0..(Len(shift_registers) - 1)

Reg(i) == shift_registers[i + 1]

\* Bit n of a stored word.
StoredBit(data, n) == (data \div (2^n)) % 2

\* The level a pin should show on the wire under the current polarity.
Effective(bit, inv) == IF inv THEN 1 - bit ELSE bit

RECURSIVE SumPins(_, _)
\* Total width of the first k registers.
SumPins(regs, k) == IF k = 0 THEN 0 ELSE SumPins(regs, k - 1) + regs[k].pins

TotalPins == SumPins(shift_registers, Len(shift_registers))

\* The most recent call ran the serialization to completion.
Serialized == call.apply /\ ~panicked

Mutators == {"set", "set_pin_high", "set_pin_low"}

IsData(e) == e.line = "data"
IsClock(e) == e.line = "clock"
IsLatch(e) == e.line = "latch"

Count(evs, Test(_)) == Cardinality({p \in DOMAIN evs : Test(evs[p])})

\* Levels driven on the data line, in order.
Levels(evs) == [p \in DOMAIN evs |-> evs[p].level]

----------------------------------------------------------------------------
\* C1: in a completed apply(), the data-line levels driven during the clock
\* pulses of a register are, in order, bit 0, bit 1, ..., bit pins-1 of its
\* stored data, each complemented exactly when invert is set.
C1_LsbFirstLevels ==
    Serialized =>
        \A i \in Indices :
            LET OfReg(e) == IsData(e) /\ e.i = i
                driven == Levels(SelectSeq(events, OfReg))
            IN  /\ Len(driven) = Reg(i).pins
                /\ \A n \in 0..(Reg(i).pins - 1) :
                      driven[n + 1] = Effective(StoredBit(Reg(i).data, n), invert)

\* An inverted apply() of a register whose pin 0 is high and pin 1 is low.
C1_Witness ==
    /\ Serialized
    /\ invert
    /\ \E i \in Indices :
          /\ Reg(i).pins >= 2
          /\ StoredBit(Reg(i).data, 0) = 1
          /\ StoredBit(Reg(i).data, 1) = 0

----------------------------------------------------------------------------
\* C2: the events of a completed apply() are latch-low, then for each bit of
\* each register the triple clock-low, data drive, clock-high, then
\* latch-high; no other latch event occurs, the number of clock rising edges
\* is the total width of the chain, and the data line is driven only while
\* the clock is low.
IsRisingEdge(evs, p) ==
    /\ evs[p].line = "clock"
    /\ evs[p].level = 1
    /\ \E q \in 1..(p - 1) :
          /\ evs[q].line = "clock"
          /\ evs[q].level = 0
          /\ \A r \in (q + 1)..(p - 1) : evs[r].line # "clock"

ClockLowAt(evs, p) ==
    \E q \in 1..(p - 1) :
        /\ evs[q].line = "clock"
        /\ evs[q].level = 0
        /\ \A r \in (q + 1)..(p - 1) : evs[r].line # "clock"

C2_ApplyShape ==
    Serialized =>
        /\ Len(events) = 3 * TotalPins + 2
        /\ events[1].line = "latch" /\ events[1].level = 0
        /\ events[Len(events)].line = "latch" /\ events[Len(events)].level = 1
        /\ \A p \in 2..(Len(events) - 1) : ~IsLatch(events[p])
        /\ \A k \in 0..(TotalPins - 1) :
              /\ events[3 * k + 2].line = "clock" /\ events[3 * k + 2].level = 0
              /\ events[3 * k + 3].line = "data"
              /\ events[3 * k + 4].line = "clock" /\ events[3 * k + 4].level = 1
        /\ Cardinality({p \in DOMAIN events : IsRisingEdge(events, p)}) = TotalPins
        /\ \A p \in DOMAIN events : IsData(events[p]) => ClockLowAt(events, p)

\* A completed apply() of a chain of two registers.
C2_Witness ==
    /\ Serialized
    /\ Len(shift_registers) = 2
    /\ TotalPins >= 3
    /\ Len(events) > 2

----------------------------------------------------------------------------
\* C3: a completed apply() clocks out the registers in insertion order
\* without interleaving: every clock pulse of a register added earlier comes
\* before every clock pulse of a register added later, and the last pulse
\* belongs to the most recently added register.
C3_InsertionOrder ==
    Serialized =>
        /\ \A p, q \in DOMAIN events :
              (IsClock(events[p]) /\ IsClock(events[q]) /\ events[p].i < events[q].i)
                  => p < q
        /\ \A i \in Indices :
              Reg(i).pins > 0 => \E p \in DOMAIN events : IsClock(events[p]) /\ events[p].i = i
        /\ (Len(shift_registers) > 0 /\ Reg(Len(shift_registers) - 1).pins > 0)
              => events[Len(events) - 1] = ClockHigh(Len(shift_registers) - 1,
                                                     Reg(Len(shift_registers) - 1).pins - 1)

\* A completed apply() of two registers holding different data.
C3_Witness ==
    /\ Serialized
    /\ Len(shift_registers) = 2
    /\ Reg(0).pins > 0 /\ Reg(1).pins > 0
    /\ Reg(0).data # Reg(1).data

----------------------------------------------------------------------------
\* The cascade as the crate documentation describes it: each clock rising
\* edge captures the data line into stage 1, the stage nearest the control
\* pins, and moves every earlier bit one stage further down the chain.
HwInit(stages) ==
    [clock |-> Unknown, data |-> Unknown, cascade |-> [s \in 1..stages |-> Unknown]]

HwStep(hw, e) ==
    CASE e.line = "data" -> [hw EXCEPT !.data = e.level]
      [] e.line = "clock" /\ e.level = 1 /\ hw.clock = 0 ->
            [hw EXCEPT !.clock = 1,
                       !.cascade = [s \in DOMAIN hw.cascade |->
                                       IF s = 1 THEN hw.data ELSE hw.cascade[s - 1]]]
      [] e.line = "clock" -> [hw EXCEPT !.clock = e.level]
      [] OTHER -> hw

RECURSIVE HwAfter(_, _, _)
\* The cascade after the first k events.
HwAfter(evs, k, stages) ==
    IF k = 0 THEN HwInit(stages) ELSE HwStep(HwAfter(evs, k - 1, stages), evs[k])

\* Number of stages between the control pins and the block of register i.
StagesBefore(i) == TotalPins - SumPins(shift_registers, i + 1)

\* C4: after a completed apply() into a cascade with as many stages as the
\* chain has pins, each register occupies one contiguous block of its own
\* width, the last-added register nearest the control pins and the
\* first-added farthest from them.
C4_CascadePlacement ==
    Serialized =>
        LET cascade == HwAfter(events, Len(events), TotalPins).cascade
        IN  \A i \in Indices : \A n \in 0..(Reg(i).pins - 1) :
                cascade[StagesBefore(i) + Reg(i).pins - n]
                    = Effective(StoredBit(Reg(i).data, n), invert)

\* A completed apply() of two registers, the first all low and the second
\* with pin 0 high.
C4_Witness ==
    /\ Serialized
    /\ Len(shift_registers) = 2
    /\ Reg(0).pins > 0 /\ Reg(1).pins > 0
    /\ Reg(0).data = 0
    /\ StoredBit(Reg(1).data, 0) = 1

----------------------------------------------------------------------------
RECURSIVE StoredLevels(_, _, _)
\* The levels of every pin of the first k registers, register by register,
\* pin 0 first.
StoredLevels(regs, inv, k) ==
    IF k = 0 THEN <<>>
    ELSE StoredLevels(regs, inv, k - 1)
            \o [m \in 1..regs[k].pins |->
                   Effective(StoredBit(regs[k].data, m - 1), inv)]

IsLatchLow(e) == e.line = "latch" /\ e.level = 0
IsLatchHigh(e) == e.line = "latch" /\ e.level = 1

\* C5: whatever calls precede it, one apply() runs exactly one latch cycle
\* and its data levels are those of the state every register holds when it
\* is called.
C5_BatchedApply ==
    (call.op = "apply" /\ ~panicked) =>
        /\ Count(events, IsLatchLow) = 1
        /\ Count(events, IsLatchHigh) = 1
        /\ Levels(SelectSeq(events, IsData))
              = StoredLevels(shift_registers, invert, Len(shift_registers))

\* An apply() of two registers that both hold a state other than the one
\* add() gave them.
C5_Witness ==
    /\ call.op = "apply"
    /\ ~panicked
    /\ Len(shift_registers) = 2
    /\ Reg(0).pins > 0 /\ Reg(1).pins > 0
    /\ Reg(0).data # 0
    /\ Reg(1).data # 0
    /\ Reg(0).data # Reg(1).data

----------------------------------------------------------------------------
\* C6: only a serialization drives a line: new, add and invert, and set,
\* set_pin_high and set_pin_low called with apply = false, emit no event.
C6_OnlyApplyDrives ==
    /\ call.op \in {"new", "add", "invert"} => events = <<>>
    /\ (call.op \in Mutators /\ ~call.apply) => events = <<>>
    /\ events # <<>> => call.apply

\* A deferred set_pin_high on a chain that has pins to shift out.
C6_Witness ==
    /\ call.op = "set_pin_high"
    /\ ~call.apply
    /\ ~panicked
    /\ TotalPins > 0
    /\ \E i \in Indices : Reg(i).data # 0
    /\ events = <<>>

----------------------------------------------------------------------------
\* In chain `after`, everything but bit `pin` of register sr_index is as it
\* is in the current chain.
OnlyPinChanged(after, sr_index, pin) ==
    /\ Len(after) = Len(shift_registers)
    /\ \A j \in Indices :
          /\ after[j + 1].pins = Reg(j).pins
          /\ j # sr_index => after[j + 1].data = Reg(j).data
    /\ \A m \in 0..(WordBits - 1) :
          m # pin => StoredBit(after[sr_index + 1].data, m)
                        = StoredBit(Reg(sr_index).data, m)

\* C7: for a register index returned by add and a pin below its width,
\* set_pin_high leaves bit pin at 1 and set_pin_low leaves it at 0, and
\* neither changes any other bit, any other register, a width or invert.
\* The first conjunct is about the chain each method leaves when called in
\* a reachable state, the second about what else a step of them changes.
C7_PinSetClear ==
    /\ [](\A sr_index \in Indices : \A pin \in 0..(Reg(sr_index).pins - 1) :
            LET high == SetPinHighLoop(shift_registers, sr_index, pin)
                low  == SetPinLowLoop(shift_registers, sr_index, pin)
            IN  /\ StoredBit(high[sr_index + 1].data, pin) = 1
                /\ OnlyPinChanged(high, sr_index, pin)
                /\ StoredBit(low[sr_index + 1].data, pin) = 0
                /\ OnlyPinChanged(low, sr_index, pin))
    /\ [][call'.op \in {"set_pin_high", "set_pin_low"} =>
            /\ invert' = invert
            /\ Len(shift_registers') = Len(shift_registers)
            /\ \A j \in Indices : shift_registers'[j + 1].pins = Reg(j).pins]_vars

\* set_pin_high has acted on a register in which another pin is high, next
\* to a second register that is not all low.
C7_Witness ==
    /\ call.op = "set_pin_high"
    /\ ~panicked
    /\ Len(shift_registers) = 2
    /\ Reg(0).pins >= 2
    /\ StoredBit(Reg(0).data, 0) = 1
    /\ StoredBit(Reg(0).data, 1) = 1
    /\ Reg(1).data # 0

----------------------------------------------------------------------------
\* C8: the k-th call of add, counted from 0, returns k whatever calls come
\* between the adds; an index, once returned, keeps naming the same
\* position of the chain: the chain never shrinks and the width at an
\* existing index never changes.
C8_AddReturnsCount ==
    /\ [](call.op = "add" => call.ret = added - 1)
    /\ [][/\ added' = added + 1 => call'.ret = added
          /\ Len(shift_registers') >= Len(shift_registers)
          /\ \A j \in Indices : shift_registers'[j + 1].pins = Reg(j).pins
          /\ added' = added + 1 =>
                /\ Len(shift_registers') = Len(shift_registers) + 1
                /\ \A j \in Indices : shift_registers'[j + 1] = Reg(j)]_vars

\* The second add has returned 1 after set and invert calls came between.
C8_Witness ==
    /\ call.op = "add"
    /\ call.ret = 1
    /\ invert
    /\ Reg(0).data # 0

----------------------------------------------------------------------------
\* C9: in every reachable state, every bit of a register's stored data at a
\* position at or above its width is zero.
C9_HighBitsZero ==
    \A i \in Indices : Reg(i).data < 2^(Reg(i).pins)

----------------------------------------------------------------------------
\* C10: a completed apply() leaves every register, the chain and invert as
\* they were, and a serialization that directly follows another one emits
\* the same events.
C10_ApplyIdempotent ==
    [][(call'.op = "apply" /\ ~panicked') =>
          /\ shift_registers' = shift_registers
          /\ invert' = invert
          /\ Serialized => events' = events]_vars

\* apply() has completed on a register that is not all low.
C10_Witness ==
    /\ call.op = "apply"
    /\ ~panicked
    /\ \E i \in Indices : Reg(i).pins > 0 /\ Reg(i).data # 0
    /\ Len(events) > 2

----------------------------------------------------------------------------
\* C11: invert is false on a freshly constructed Shifter; every invert()
\* flips it, so that two calls in a row restore the value it had; and
\* invert() leaves every register's data and pins and the number of
\* registers as they were.
C11_InvertToggles ==
    /\ [](invert \in BOOLEAN /\ (call.op = "new" => invert = FALSE))
    /\ [][call'.op = "invert" =>
            /\ invert' = ~invert
            /\ (~invert') = invert
            /\ shift_registers' = shift_registers
            /\ added' = added]_vars

\* invert() has just switched inversion back off on a chain whose data is
\* not all low: it has been called at least twice.
C11_Witness ==
    /\ call.op = "invert"
    /\ invert = FALSE
    /\ Len(shift_registers) = MaxRegs
    /\ \E i \in Indices : Reg(i).data # 0

----------------------------------------------------------------------------
\* C12: apply() on a chain with no register emits exactly two events, latch
\* low and then latch high, and drives neither the clock line nor the data
\* line, whether invert is set or not.
C12_EmptyChainApply ==
    (Serialized /\ Len(shift_registers) = 0) =>
        /\ Len(events) = 2
        /\ IsLatchLow(events[1])
        /\ IsLatchHigh(events[2])
        /\ \A p \in DOMAIN events : ~IsClock(events[p]) /\ ~IsData(events[p])

\* apply() has completed on an empty chain with inversion switched on.
C12_Witness ==
    /\ call.op = "apply"
    /\ ~panicked
    /\ Len(shift_registers) = 0
    /\ invert
    /\ Len(events) > 0

----------------------------------------------------------------------------
\* C13: set, set_pin_high and set_pin_low called with an index that add()
\* never returned change no register's data or pins, create no register,
\* leave invert as it was, and report nothing to the caller: the call
\* returns without a panic, whatever the pin number.
C13_OutOfRangeNoOp ==
    /\ [](\A sr_index \in IndexArgs, pin \in PinArgs, apply \in BOOLEAN :
            OutOfRange(sr_index) =>
               /\ ~ENABLED ShiftPanic("set_pin_high", sr_index, pin, apply)
               /\ ~ENABLED ShiftPanic("set_pin_low", sr_index, pin, apply))
    /\ [][call'.op \in Mutators =>
            /\ shift_registers' = shift_registers
            /\ invert' = invert
            /\ added' = added
            /\ panicked' = FALSE
            /\ failed' = NoDrive]_vars

\* set() with an index past the end has returned on a full chain that holds
\* data, with inversion on.
C13_Witness ==
    /\ call.op = "set"
    /\ ~call.apply
    /\ ~panicked
    /\ invert
    /\ Len(shift_registers) = MaxRegs
    /\ \A i \in Indices : Reg(i).data # 0

----------------------------------------------------------------------------
\* C14: when a line drive fails during apply(), the call ends there with a
\* panic that reaches the caller: the events emitted are exactly the drives
\* that come before the failing one in a complete serialization, the
\* failing drive is not among them and is not made again, latch high is
\* not driven, nothing is driven to undo them or after them, and no
\* register, the chain and invert are not changed.
C14_DriveFailureEndsApply ==
    /\ [][failed' # NoDrive =>
            /\ panicked'
            /\ Len(events') < Len(ApplyEvents(shift_registers, invert))
            /\ events' = SubSeq(ApplyEvents(shift_registers, invert),
                                1, Len(events'))
            /\ failed' = ApplyEvents(shift_registers, invert)[Len(events') + 1]
            /\ \A p \in DOMAIN events' :
                  events'[p] # failed' /\ ~IsLatchHigh(events'[p])
            /\ shift_registers' = shift_registers
            /\ invert' = invert
            /\ added' = added]_vars
    /\ [][~panicked]_vars

\* A clock drive has failed in the middle of the second register of an
\* inverted chain that holds data.
C14_Witness ==
    /\ panicked
    /\ failed # NoDrive
    /\ IsClock(failed)
    /\ failed.i = 1
    /\ invert
    /\ \E p \in DOMAIN events : IsData(events[p]) /\ events[p].level = 0
    /\ \A i \in Indices : Reg(i).data # 0

----------------------------------------------------------------------------
\* C15: for every index add() has returned and every data word, set()
\* leaves that register holding exactly the word given, not masked to its
\* pins, not checked and not merged with what it held, and leaves every
\* other register, every register's pins, the number of registers and
\* invert as they were.
C15_SetStoresData ==
    /\ [](\A sr_index \in Indices, data \in Words :
            /\ Len(SetLoop(shift_registers, sr_index, data))
                  = Len(shift_registers)
            /\ SetLoop(shift_registers, sr_index, data)[sr_index + 1].data
                  = data
            /\ \A i \in Indices :
                  /\ SetLoop(shift_registers, sr_index, data)[i + 1].pins
                        = Reg(i).pins
                  /\ i # sr_index =>
                        SetLoop(shift_registers, sr_index, data)[i + 1]
                           = Reg(i))
    /\ [][call'.op = "set" =>
            /\ invert' = invert
            /\ added' = added
            /\ Len(shift_registers') = Len(shift_registers)
            /\ \A i \in Indices :
                  shift_registers'[i + 1].pins = Reg(i).pins]_vars

\* set() has returned on an inverted two-register chain whose first
\* register has fewer pins than the word has bits and holds the all-ones
\* word, the second holding data too.
C15_Witness ==
    /\ call.op = "set"
    /\ ~panicked
    /\ invert
    /\ Len(shift_registers) = MaxRegs
    /\ Reg(0).pins < WordBits
    /\ Reg(0).data = 2^WordBits - 1
    /\ Reg(1).data # 0

----------------------------------------------------------------------------
\* C16: set, set_pin_high and set_pin_low called with apply = true store
\* the new data first and then serialize once: the events of the call are
\* those apply() emits from the state the same call with apply = false
\* leaves, one latch cycle whose data levels are those of the data the
\* registers hold when the call returns.
C16_ApplyAfterMutation ==
    (call.op \in Mutators /\ Serialized) =>
        /\ events = ApplyEvents(shift_registers, invert)
        /\ Count(events, IsLatchLow) = 1
        /\ Count(events, IsLatchHigh) = 1
        /\ IsLatchLow(events[1])
        /\ IsLatchHigh(events[Len(events)])
        /\ Levels(SelectSeq(events, IsData))
              = StoredLevels(shift_registers, invert, Len(shift_registers))

\* set() with apply = true has returned on a two-register chain and has
\* driven the data line both high and low.
C16_Witness ==
    /\ call.op = "set"
    /\ call.apply
    /\ ~panicked
    /\ Len(shift_registers) = MaxRegs
    /\ Reg(0).data # Reg(1).data
    /\ \E p \in DOMAIN events : IsData(events[p]) /\ events[p].level = 1
    /\ \E p \in DOMAIN events : IsData(events[p]) /\ events[p].level = 0

----------------------------------------------------------------------------
\* C17: when no line drive fails, every drive of the data line and every
\* drive of the clock line to high comes after a latch drive of the same
\* call, the last of which is to low; every call that serializes leaves
\* the latch line high; and between calls the latch line, once high, is
\* still high after whatever call comes next.
C17_LatchWindow ==
    /\ [](\A p \in DOMAIN events :
            (IsData(events[p]) \/ (IsClock(events[p]) /\ events[p].level = 1))
               => /\ \E q \in 1..(p - 1) : IsLatch(events[q])
                  /\ LatchAfter(Unknown, events, p - 1) = 0)
    /\ [][(call'.apply /\ ~panicked') => latch' = 1]_vars
    /\ [][latch = 1 => latch' = 1]_vars

\* A serialization has completed earlier; since then set() has stored data
\* without serializing, and the latch line is still high.
C17_Witness ==
    /\ latch = 1
    /\ call.op = "set"
    /\ ~call.apply
    /\ events = <<>>
    /\ Len(shift_registers) = MaxRegs
    /\ \A i \in Indices : Reg(i).data # 0

----------------------------------------------------------------------------
\* C18: set, set_pin_high and set_pin_low called with an index add() never
\* returned and apply = true still serialize the chain as it was before
\* the call, once and completely: latch low, three drives for every pin of
\* every register with the data levels of the unchanged data, latch high.
\* With apply = false they emit no event.
C18_OutOfRangeStillApplies ==
    [][call'.op \in Mutators =>
          IF call'.apply
          THEN /\ Len(events') = 3 * SumPins(shift_registers, Len(shift_registers)) + 2
               /\ IsLatchLow(events'[1])
               /\ IsLatchHigh(events'[Len(events')])
               /\ Count(events', IsLatch) = 2
               /\ Levels(SelectSeq(events', IsData))
                     = StoredLevels(shift_registers, invert,
                                    Len(shift_registers))
               /\ events' = ApplyEvents(shift_registers, invert)
          ELSE events' = <<>>]_vars

\* set_pin_high() with an index past the end and apply = true has returned
\* on a full inverted chain that holds data, and has driven the lines.
C18_Witness ==
    /\ call.op = "set_pin_high"
    /\ call.apply
    /\ ~panicked
    /\ invert
    /\ Len(shift_registers) = MaxRegs
    /\ \A i \in Indices : Reg(i).data # 0
    /\ Len(events) > 2

----------------------------------------------------------------------------
\* C19: add(pins) puts exactly one register, with the pins given and data
\* 0, after the last register of the chain and leaves the data and pins of
\* every register added before it and invert as they were; no other call
\* changes the number of registers, so the chain never shrinks, and the
\* pins of a register never change once it is added.
C19_AddAppends ==
    [][/\ \A pins \in Widths :
             Add(pins) =>
                /\ shift_registers'
                      = shift_registers \o <<[data |-> 0, pins |-> pins]>>
                /\ invert' = invert
       /\ call'.op = "add" =>
             /\ Len(shift_registers') = Len(shift_registers) + 1
             /\ shift_registers'[Len(shift_registers')].data = 0
             /\ SubSeq(shift_registers', 1, Len(shift_registers))
                   = shift_registers
             /\ invert' = invert
       /\ call'.op # "add" =>
             Len(shift_registers') = Len(shift_registers)
       /\ Len(shift_registers') >= Len(shift_registers)
       /\ \A i \in Indices : shift_registers'[i + 1].pins = Reg(i).pins]_vars

\* add() has returned on an inverted chain whose earlier register holds
\* data and has other pins than the one just added.
C19_Witness ==
    /\ call.op = "add"
    /\ ~panicked
    /\ invert
    /\ Len(shift_registers) = MaxRegs
    /\ Reg(0).data # 0
    /\ Reg(0).pins # Reg(MaxRegs - 1).pins
    /\ Reg(MaxRegs - 1).data = 0

====
